---- MODULE Spec2Model ----
(***************************************************************************)
(* The lint-and-repair handler of openapi-spec-validator: POST             *)
(* /yaml/validate runs the lint command, normalizes its output with        *)
(* formatSpectralOutput and, when there are issues, drives getAiFixes:     *)
(* issues are grouped by region key, each region's sub-document is         *)
(* extracted, sent with a batch of at most CHUNK_SIZE issues to the        *)
(* rewrite service (callAiWithChunk) and merged back with Object.assign.   *)
(*                                                                         *)
(* A JavaScript string is modelled by the sequence of its '.'-separated    *)
(* tokens where the code splits or joins it, a YAML text by the kind of    *)
(* value it parses to, and a JavaScript object by the cell of each key.    *)
(***************************************************************************)
EXTENDS Integers, Sequences, FiniteSets, TLC

\* The batch size of getAiFixes.
CHUNK_SIZE == 5

\* Bounds of the model: every issue list of length <= MaxShort, and the lists
\* of length <= MaxLong that hold one item repeated, with at most one other
\* in the first, the second or the last place.
MaxShort == 2
MaxLong == 7

\* The lint command writes text to stderr, or ends with an error, beside its
\* output only for outputs of at most MaxStderr items (stderr decides nothing
\* once stdout has text, and the error of exec is never read).
MaxStderr == 1

\* The lint output given to the line-sorting normalizer holds at most MaxLines
\* issues.
MaxLines == 3

VARIABLES
  pc,        \* "idle", "linting" (exec runs), "rewriting" (fetch runs), "responded"
  doc,       \* the uploaded document
  apiKey,    \* whether GROQ_API_KEY is configured
  yamlDump,  \* what yaml.dump of the installed js-yaml does with undefined
  lint,      \* what exec gave: stdout, whether stderr has text, whether error is set
  spectral,  \* spectralJsonResponse
  run,       \* the locals of getAiFixes
  calls,     \* the requests sent to the rewrite service, in order
  outcomes,  \* what fetch gave for each of them
  response,  \* the HTTP response
  pair,      \* two requests served at the same time, each with its own locals
  norm,      \* a request served by the lint-only handler, which sorts by line
  temp       \* the temporary file of the upload and what was read from it

vars ==
  <<pc, doc, apiKey, yamlDump, lint, spectral, run, calls, outcomes, response, pair,
    norm, temp>>

(***************************************************************************)
(* Objects and YAML texts                                                  *)
(***************************************************************************)

\* The property names an object of the model can hold.
K == {"info", "tags", "paths", "/a", "/b", "0", ""}

\* Scalar values of the document: v0 is the uploaded content, v1 and v2 are
\* successive rewrites of it, vx is content the rewrite service invented.
Vals == {"v0", "v1", "v2", "vx"}

\* The cell of a key: no own property, a property whose value is undefined,
\* a property holding a nested mapping, or a scalar.
Cells == {"absent", "undef", "map"} \cup Vals

NoProps == [k \in K |-> "absent"]

\* A JavaScript object two levels deep: top holds the own properties, and
\* when top.paths is a mapping, paths holds the properties of that mapping.
Objs == [top : [K -> Cells], paths : [K -> Cells]]

EmptyObj == [top |-> NoProps, paths |-> NoProps]

\* The uploaded documents of the model.
DocFull ==
  [top |-> [k \in K |-> CASE k = "info" -> "v0" [] k = "tags" -> "v0"
                          [] k = "paths" -> "map" [] OTHER -> "absent"],
   paths |-> [k \in K |-> IF k \in {"/a", "/b"} THEN "v0" ELSE "absent"]]

DocOnePath ==
  [top |-> [k \in K |-> CASE k = "info" -> "v0"
                          [] k = "paths" -> "map" [] OTHER -> "absent"],
   paths |-> [k \in K |-> IF k = "/a" THEN "v0" ELSE "absent"]]

DocNoPaths ==
  [top |-> [k \in K |-> IF k \in {"info", "tags"} THEN "v0" ELSE "absent"],
   paths |-> NoProps]

Docs == {DocFull, DocOnePath, DocNoPaths}

\* A string the repair handles: a failure or skip message, or a YAML text
\* classified by what yaml.load makes of it.
\*   failmsg     a message callAiWithChunk or getAiFixes builds, which starts
\*               with 'AI fix failed:' (reason says which)
\*   skipmsg     'AI fix skipped: GROQ_API_KEY not configured.'
\*   yaml        the text of a mapping (obj)
\*   scalar      a text that parses to a string, such as a plain sentence
\*   blank       a text that is empty after trim: yaml.load gives undefined
\*   invalid     a text yaml.load throws on
\*   failprefix  rewritten content that itself starts with 'AI fix failed:'
\*   none        no string
\* at is the region key and the batch the text names; the messages the code
\* builds are literals that name neither.
NoWhere == [key |-> <<>>, batch |-> <<>>]

Str(kind, reason, obj) == [kind |-> kind, reason |-> reason, obj |-> obj, at |-> NoWhere]

NoStr == Str("none", "", EmptyObj)

FailMsg(reason) == Str("failmsg", reason, EmptyObj)

SkipMsg == Str("skipmsg", "", EmptyObj)

YamlText(obj) == Str("yaml", "", obj)

\* A value a variable of getAiFixes holds after yaml.load: an object, a
\* string or undefined.
JsObj(obj) == [kind |-> "obj", obj |-> obj]

JsStr == [kind |-> "str", obj |-> EmptyObj]

JsUndef == [kind |-> "undef", obj |-> EmptyObj]

HasUndef(obj) ==
  \E k \in K : obj.top[k] = "undef" \/ (obj.top[k] = "map" /\ obj.paths[k] = "undef")

\* yaml.dump of js-yaml 3 throws on a value that is undefined, at the top or
\* in a property ("throws"); js-yaml 4 leaves a property whose value is
\* undefined out and dumps undefined as the empty text ("skips"). The
\* repository does not pin the version: yamlDump is either.
DumpThrows(v) ==
  yamlDump = "throws" /\ (v.kind = "undef" \/ (v.kind = "obj" /\ HasUndef(v.obj)))

\* The object without the properties whose value is undefined.
Defined(obj) ==
  [top |-> [k \in K |-> IF obj.top[k] = "undef" THEN "absent" ELSE obj.top[k]],
   paths |-> [k \in K |-> IF obj.paths[k] = "undef" THEN "absent" ELSE obj.paths[k]]]

Dump(v) ==
  CASE v.kind = "str" -> Str("scalar", "", EmptyObj)
    [] v.kind = "undef" -> Str("blank", "", EmptyObj)
    [] OTHER -> YamlText(Defined(v.obj))

\* yaml.load: throws on an invalid text.
LoadThrows(s) == s.kind = "invalid"

Load(s) ==
  CASE s.kind = "yaml" -> JsObj(s.obj)
    [] s.kind = "blank" -> JsUndef
    [] OTHER -> JsStr

\* The own enumerable properties Object.assign copies from a source: those of
\* an object, the indexed characters of a string, none of undefined.
Props(v) ==
  CASE v.kind = "obj" -> v.obj
    [] v.kind = "str" -> [top |-> [NoProps EXCEPT !["0"] = "vx"], paths |-> NoProps]
    [] OTHER -> EmptyObj

(***************************************************************************)
(* formatSpectralOutput                                                    *)
(***************************************************************************)

\* The tokens between the '.' characters of a path segment.
Tokens(seg) == IF seg = "/a.json" THEN <<"/a", "json">> ELSE <<seg>>

RECURSIVE JoinDot(_)
\* item.path.join('.'), as the tokens of the joined string.
JoinDot(path) ==
  IF path = <<>> THEN <<>> ELSE Tokens(Head(path)) \o JoinDot(Tail(path))

\* The element of a raw item: the joined path; an empty path joins to the
\* empty string, which has the single token "".
Element(path) == IF path = <<>> THEN <<"">> ELSE JoinDot(path)

\* The raw items of the model: a severity (0 error, 1 warning, 2 information)
\* and a location path.
RawItem(sev, path) == [sev |-> sev, path |-> path]

RawItems ==
  {RawItem(1, <<"info", "title">>), RawItem(0, <<"paths", "/a", "get">>),
   RawItem(1, <<"paths", "/a", "get">>), RawItem(2, <<"paths", "/b">>)}

ShortLists == UNION {[1..n -> RawItems] : n \in 0..MaxShort}

LongLists ==
  UNION {UNION {{[i \in 1..n |-> IF i = j THEN x ELSE y] : x \in RawItems, y \in RawItems}
                : j \in {0, 1, 2, n}} : n \in (MaxShort + 1)..MaxLong}

\* Lint outputs with an issue whose path has a segment that holds a '.', an
\* issue whose path is empty, and an issue located on the paths section itself.
EdgeLists ==
  {<<RawItem(0, <<"paths", "/a.json", "get">>)>>,
   <<RawItem(0, <<>>)>>,
   <<RawItem(0, <<>>), RawItem(1, <<"info", "title">>)>>,
   <<RawItem(0, <<"paths">>), RawItem(0, <<"paths", "/a", "get">>)>>,
   <<RawItem(0, <<"paths", "/a", "get">>), RawItem(0, <<"paths">>)>>}

RawLists == ShortLists \cup LongLists \cup EdgeLists

\* What the lint command wrote to stdout: nothing, the JSON text of a list of
\* raw items, the JSON text of something that is no list, or no JSON at all.
Stdout(kind, items) == [kind |-> kind, items |-> items]

Stdouts ==
  {Stdout("empty", <<>>), Stdout("garbage", <<>>), Stdout("notlist", <<>>)}
    \cup {Stdout("list", l) : l \in RawLists}

\* newItem of formatSpectralOutput; id stands for the title and description
\* of the i-th raw item.
NewItem(raw, i) == [id |-> i, element |-> Element(raw[i].path)]

Formatted(errors, warnings) == [errors |-> errors, warnings |-> warnings]

RECURSIVE Collect(_, _, _)
\* The items of raw from position i on whose severity is (warn = TRUE) or is
\* not (warn = FALSE) 1, in order.
Collect(raw, i, warn) ==
  IF i > Len(raw) THEN <<>>
  ELSE (IF (raw[i].sev = 1) = warn THEN <<NewItem(raw, i)>> ELSE <<>>)
         \o Collect(raw, i + 1, warn)

\* formatSpectralOutput: JSON.parse throws on text that is no JSON and the
\* for-of loop throws on a value that is not iterable; the catch returns the
\* empty structure.
formatSpectralOutput(out) ==
  IF out.kind \in {"garbage", "notlist"} THEN Formatted(<<>>, <<>>)
  ELSE Formatted(Collect(out.items, 1, FALSE), Collect(out.items, 1, TRUE))

(***************************************************************************)
(* getAiFixes: grouping, extraction and merge                              *)
(***************************************************************************)

\* The region key of an issue, as the tokens of the key string.
ChunkKey(issue) ==
  LET elementParts == issue.element
  IN IF Len(elementParts) > 1 /\ elementParts[1] = "paths"
     THEN <<elementParts[1], elementParts[2]>>
     ELSE <<elementParts[1]>>

Group(key, issues) == [key |-> key, issues |-> issues]

\* Push that puts the group of a new key before the groups already there.
PushFirst(acc, key, issue) ==
  IF \E g \in 1..Len(acc) : acc[g].key = key
  THEN LET g == CHOOSE g \in 1..Len(acc) : acc[g].key = key
       IN SubSeq(acc, 1, g - 1) \o <<Group(key, Append(acc[g].issues, issue))>>
            \o SubSeq(acc, g + 1, Len(acc))
  ELSE <<Group(key, <<issue>>)>> \o acc

\* Push that adds to a group only while its key is the last one inserted.
PushRuns(acc, key, issue) ==
  IF acc # <<>> /\ acc[Len(acc)].key = key
  THEN SubSeq(acc, 1, Len(acc) - 1) \o <<Group(key, Append(acc[Len(acc)].issues, issue))>>
  ELSE Append(acc, Group(key, <<issue>>))

\* acc[key].push(issue): the groups in the order their keys were inserted.
Push(acc, key, issue) ==
  IF \E g \in 1..Len(acc) : acc[g].key = key
  THEN LET g == CHOOSE g \in 1..Len(acc) : acc[g].key = key
       IN SubSeq(acc, 1, g - 1) \o <<Group(key, Append(acc[g].issues, issue))>>
            \o SubSeq(acc, g + 1, Len(acc))
  ELSE Append(acc, Group(key, <<issue>>))

RECURSIVE Reduce(_, _)
\* allIssues.reduce(...): errorsByChunkKey.
Reduce(allIssues, acc) ==
  IF allIssues = <<>> THEN acc
  ELSE Reduce(Tail(allIssues), Push(acc, ChunkKey(Head(allIssues)), Head(allIssues)))

ErrorsByChunkKey(spectralIssues) ==
  Reduce(spectralIssues.errors \o spectralIssues.warnings, <<>>)

\* A cell read as a property value: a missing property reads as undefined.
Read(cell) == IF cell = "absent" THEN "undef" ELSE cell

\* mainYamlObject.paths[...] throws when mainYamlObject.paths is undefined.
ExtractThrows(main, key) ==
  Len(key) > 1 /\ main.top["paths"] \in {"absent", "undef"}

\* yamlChunkObject for a region key.
Extract(main, key) ==
  IF Len(key) > 1
  THEN [top |-> [NoProps EXCEPT ![key[2]] =
                   IF main.top["paths"] = "map" THEN Read(main.paths[key[2]]) ELSE "undef"],
        paths |-> NoProps]
  ELSE [top |-> [NoProps EXCEPT ![key[1]] = Read(main.top[key[1]])],
        paths |-> IF key[1] = "paths" /\ main.top["paths"] = "map"
                  THEN main.paths ELSE NoProps]

\* Object.assign(mainYamlObject.paths, fixedChunkObject) throws when the
\* target is undefined.
MergeThrows(main, key) ==
  Len(key) > 1 /\ main.top["paths"] \in {"absent", "undef"}

\* Merge that replaces the paths mapping by the fixed object for a path region.
MergeWholesale(main, key, fixed) ==
  LET src == Props(fixed)
  IN IF Len(key) > 1
     THEN IF main.top["paths"] = "map" THEN [main EXCEPT !.paths = src.top] ELSE main
     ELSE [top |-> [k \in K |-> IF src.top[k] # "absent" THEN src.top[k] ELSE main.top[k]],
           paths |-> IF src.top["paths"] = "absent" THEN main.paths
                     ELSE IF src.top["paths"] = "map" THEN src.paths ELSE NoProps]

\* The content a merge that appends to the old content leaves in a cell.
Appended(old, new) ==
  IF old \in {"absent", "undef"} THEN new
  ELSE CASE old = "v0" -> "v1" [] old = "v1" -> "v2" [] old = "v2" -> "vx" [] OTHER -> "v0"

\* Merge that appends the rewritten content to the content already there.
MergeAppend(main, key, fixed) ==
  LET src == Props(fixed)
  IN IF Len(key) > 1
     THEN IF main.top["paths"] = "map"
          THEN [main EXCEPT !.paths =
                  [k \in K |-> IF src.top[k] # "absent"
                               THEN Appended(main.paths[k], src.top[k]) ELSE main.paths[k]]]
          ELSE main
     ELSE [main EXCEPT !.top =
             [k \in K |-> IF src.top[k] # "absent" /\ k # "paths"
                          THEN Appended(main.top[k], src.top[k]) ELSE main.top[k]]]

\* Object.assign onto mainYamlObject.paths for a path region and onto
\* mainYamlObject otherwise.
Merge(main, key, fixed) ==
  LET src == Props(fixed)
  IN IF Len(key) > 1
     THEN IF main.top["paths"] = "map"
          THEN [main EXCEPT !.paths =
                  [k \in K |-> IF src.top[k] # "absent" THEN src.top[k] ELSE main.paths[k]]]
          ELSE main
     ELSE [top |-> [k \in K |-> IF src.top[k] # "absent" THEN src.top[k] ELSE main.top[k]],
           paths |-> IF src.top["paths"] = "absent" THEN main.paths
                     ELSE IF src.top["paths"] = "map" THEN src.paths ELSE NoProps]

(***************************************************************************)
(* callAiWithChunk                                                         *)
(***************************************************************************)

\* A request to the rewrite service: the region key it was built for, the
\* batch of issues and the dumped sub-document placed in the prompt.
Req(key, batch, yaml) == [key |-> key, batch |-> batch, yaml |-> yaml]

NoReq == Req(<<>>, <<>>, NoStr)

\* What fetch gave: it threw (net = "exception"), answered with a non-success
\* status (net = "status"), or answered with a success status and a body
\* whose choices[0].message.content is content (kind "none": missing or empty).
Outcome(net, content) == [net |-> net, content |-> content]

BumpCell(c) == CASE c = "v0" -> "v1" [] c = "v1" -> "v2" [] OTHER -> c

\* The sub-document with every scalar rewritten.
Rewritten(obj) ==
  [top |-> [k \in K |-> BumpCell(obj.top[k])], paths |-> [k \in K |-> BumpCell(obj.paths[k])]]

\* A key the sub-document of the region did not hold: a sibling path entry
\* for a path region, another top-level field otherwise.
ForeignKey(key) ==
  IF Len(key) > 1 THEN (IF key[2] = "/a" THEN "/b" ELSE "/a")
  ELSE (IF key[1] = "tags" THEN "info" ELSE "tags")

\* The answers of the rewrite service the model draws from, for a request: the
\* sub-document as it was sent, rewritten, rewritten with a foreign key added,
\* a plain sentence, white space, text that is no YAML, text that starts with
\* 'AI fix failed:', and no text.
Contents(req) ==
  {req.yaml, YamlText(Rewritten(req.yaml.obj)),
   YamlText([Rewritten(req.yaml.obj) EXCEPT !.top[ForeignKey(req.key)] = "vx"]),
   Str("scalar", "", EmptyObj), Str("blank", "", EmptyObj),
   Str("invalid", "", EmptyObj), Str("failprefix", "", EmptyObj), NoStr}

Outcomes(req) ==
  {Outcome("exception", NoStr), Outcome("status", NoStr)}
    \cup {Outcome("ok", c) : c \in Contents(req)}

\* callAiWithChunk that reports every failure of the call with one message.
callAiOneMessage(outcome) ==
  CASE outcome.net \in {"exception", "status"} -> FailMsg("exception")
    [] outcome.content.kind = "none" -> FailMsg("exception")
    [] OTHER -> outcome.content

\* The string callAiWithChunk resolves to. The content is returned as the
\* inside of its yaml fence, or trimmed: the text classified by its kind.
callAiWithChunk(outcome) ==
  CASE outcome.net = "exception" -> FailMsg("exception")
    [] outcome.net = "status" -> FailMsg("status")
    [] outcome.content.kind = "none" -> FailMsg("notext")
    [] OTHER -> outcome.content

\* fixedChunkString.startsWith('AI fix failed:')
StartsWithFailed(s) == s.kind \in {"failmsg", "failprefix"}

(***************************************************************************)
(* getAiFixes: the loop                                                    *)
(***************************************************************************)

\* The locals of a run of getAiFixes between two awaits: request is the call
\* it waits for, or result is the string it resolved to; merges counts the
\* Object.assign calls done.
Run(main, chunk, groups, gi, request, result, merges) ==
  [main |-> main, chunk |-> chunk, groups |-> groups, gi |-> gi,
   request |-> request, result |-> result, merges |-> merges]

Min(a, b) == IF a < b THEN a ELSE b

\* StartBatch with a splice that removes one issue more than it returns.
StartBatchDropOne(main, chunk, groups, gi, merges) ==
  LET issuesForChunk == groups[gi].issues
      n == Min(CHUNK_SIZE, Len(issuesForChunk))
      errorChunk == SubSeq(issuesForChunk, 1, n)
      spliced == [groups EXCEPT ![gi].issues = SubSeq(issuesForChunk, n + 2, Len(issuesForChunk))]
  IN IF DumpThrows(chunk)
     THEN Run(main, chunk, spliced, gi, NoReq, FailMsg("critical"), merges)
     ELSE Run(main, chunk, spliced, gi, Req(groups[gi].key, errorChunk, Dump(chunk)),
              NoStr, merges)

\* StartBatch whose throw of yaml.dump leaves getAiFixes uncaught: the promise
\* rejects and the run resolves to no string.
StartBatchRejects(main, chunk, groups, gi, merges) ==
  LET issuesForChunk == groups[gi].issues
      n == Min(CHUNK_SIZE, Len(issuesForChunk))
      errorChunk == SubSeq(issuesForChunk, 1, n)
      spliced == [groups EXCEPT ![gi].issues = SubSeq(issuesForChunk, n + 1, Len(issuesForChunk))]
  IN IF DumpThrows(chunk)
     THEN Run(main, chunk, spliced, gi, NoReq, NoStr, merges)
     ELSE Run(main, chunk, spliced, gi, Req(groups[gi].key, errorChunk, Dump(chunk)),
              NoStr, merges)

\* StartBatch whose splice removes nothing from issuesForChunk.
StartBatchNoSplice(main, chunk, groups, gi, merges) ==
  LET issuesForChunk == groups[gi].issues
      n == Min(CHUNK_SIZE, Len(issuesForChunk))
      errorChunk == SubSeq(issuesForChunk, 1, n)
  IN IF DumpThrows(chunk)
     THEN Run(main, chunk, groups, gi, NoReq, FailMsg("critical"), merges)
     ELSE Run(main, chunk, groups, gi, Req(groups[gi].key, errorChunk, Dump(chunk)),
              NoStr, merges)

\* One pass of the while loop up to the await: splice the next errorChunk off
\* issuesForChunk, dump yamlChunkObject and call the rewrite service. A throw
\* of yaml.dump lands in the outer catch.
StartBatch(main, chunk, groups, gi, merges) ==
  LET issuesForChunk == groups[gi].issues
      n == Min(CHUNK_SIZE, Len(issuesForChunk))
      errorChunk == SubSeq(issuesForChunk, 1, n)
      spliced == [groups EXCEPT ![gi].issues = SubSeq(issuesForChunk, n + 1, Len(issuesForChunk))]
  IN IF DumpThrows(chunk)
     THEN Run(main, chunk, spliced, gi, NoReq, FailMsg("critical"), merges)
     ELSE Run(main, chunk, spliced, gi, Req(groups[gi].key, errorChunk, Dump(chunk)),
              NoStr, merges)

\* The body of the for-in loop for the gi-th key, up to the first await.
EnterKey(main, chunk, groups, gi, merges) ==
  IF ExtractThrows(main, groups[gi].key)
  THEN Run(main, chunk, groups, gi, NoReq, FailMsg("critical"), merges)
  ELSE StartBatch(main, JsObj(Extract(main, groups[gi].key)), groups, gi, merges)

\* After the loops: return yaml.dump(mainYamlObject).
Finish(main, chunk, groups, gi, merges) ==
  IF DumpThrows(JsObj(main))
  THEN Run(main, chunk, groups, gi, NoReq, FailMsg("critical"), merges)
  ELSE Run(main, chunk, groups, gi, NoReq, Dump(JsObj(main)), merges)

\* Continue that leaves the while loop after one batch of a region.
ContinueNextKey(main, chunk, groups, gi, merges) ==
  IF gi < Len(groups) THEN EnterKey(main, chunk, groups, gi + 1, merges)
  ELSE Finish(main, chunk, groups, gi, merges)

\* Continue that turns to another region with issues left after every batch.
ContinueAlternate(main, chunk, groups, gi, merges) ==
  IF \E g \in 1..Len(groups) : g # gi /\ groups[g].issues # <<>>
  THEN EnterKey(main, chunk, groups,
                CHOOSE g \in 1..Len(groups) : g # gi /\ groups[g].issues # <<>>, merges)
  ELSE IF groups[gi].issues # <<>> THEN StartBatch(main, chunk, groups, gi, merges)
  ELSE Finish(main, chunk, groups, gi, merges)

\* From the end of a pass of the while loop to the next await or return.
Continue(main, chunk, groups, gi, merges) ==
  IF groups[gi].issues # <<>> THEN StartBatch(main, chunk, groups, gi, merges)
  ELSE IF gi < Len(groups) THEN EnterKey(main, chunk, groups, gi + 1, merges)
  ELSE Finish(main, chunk, groups, gi, merges)

\* getAiFixes without the check of GROQ_API_KEY: with no key it returns the
\* dump of the document it loaded.
getAiFixesNoKeyCheck(initialYamlContent, spectralIssues, key) ==
  LET mainYamlObject == Load(initialYamlContent).obj
      groups == ErrorsByChunkKey(spectralIssues)
  IN IF groups = <<>> \/ ~key THEN Finish(mainYamlObject, JsUndef, groups, 0, 0)
     ELSE EnterKey(mainYamlObject, JsUndef, groups, 1, 0)

\* getAiFixes up to its first await or its return.
getAiFixes(initialYamlContent, spectralIssues, key) ==
  IF ~key THEN Run(EmptyObj, JsUndef, <<>>, 0, NoReq, SkipMsg, 0)
  ELSE LET mainYamlObject == Load(initialYamlContent).obj
           groups == ErrorsByChunkKey(spectralIssues)
       IN IF groups = <<>> THEN Finish(mainYamlObject, JsUndef, groups, 0, 0)
          ELSE EnterKey(mainYamlObject, JsUndef, groups, 1, 0)

\* Resume that returns the document merged so far when a batch fails.
ResumePartial(r, fixedChunkString) ==
  IF StartsWithFailed(fixedChunkString) \/ LoadThrows(fixedChunkString)
       \/ MergeThrows(r.main, r.request.key)
  THEN [r EXCEPT !.request = NoReq, !.result = Dump(JsObj(r.main))]
  ELSE LET fixedChunkObject == Load(fixedChunkString)
       IN Continue(Merge(r.main, r.request.key, fixedChunkObject), fixedChunkObject,
                   r.groups, r.gi, r.merges + 1)

\* Resume that skips a failed batch and goes on instead of returning.
ResumeKeepGoing(r, fixedChunkString) ==
  IF StartsWithFailed(fixedChunkString) \/ LoadThrows(fixedChunkString)
       \/ MergeThrows(r.main, r.request.key)
  THEN Continue(r.main, r.chunk, r.groups, r.gi, r.merges)
  ELSE LET fixedChunkObject == Load(fixedChunkString)
       IN Continue(Merge(r.main, r.request.key, fixedChunkObject), fixedChunkObject,
                   r.groups, r.gi, r.merges + 1)

\* Resume that goes on to the next batch without merging the fixed object.
ResumeNoMerge(r, fixedChunkString) ==
  IF StartsWithFailed(fixedChunkString)
  THEN [r EXCEPT !.request = NoReq, !.result = fixedChunkString]
  ELSE IF LoadThrows(fixedChunkString) \/ MergeThrows(r.main, r.request.key)
  THEN [r EXCEPT !.request = NoReq, !.result = FailMsg("parse")]
  ELSE Continue(r.main, Load(fixedChunkString), r.groups, r.gi, r.merges)

\* Resume that submits a failed batch again.
ResumeRetry(r, fixedChunkString) ==
  IF StartsWithFailed(fixedChunkString) \/ LoadThrows(fixedChunkString)
       \/ MergeThrows(r.main, r.request.key)
  THEN [r EXCEPT !.result = NoStr]
  ELSE LET fixedChunkObject == Load(fixedChunkString)
       IN Continue(Merge(r.main, r.request.key, fixedChunkObject), fixedChunkObject,
                   r.groups, r.gi, r.merges + 1)

\* getAiFixes from the return of callAiWithChunk to the next await or return.
Resume(r, fixedChunkString) ==
  IF StartsWithFailed(fixedChunkString)
  THEN [r EXCEPT !.request = NoReq, !.result = fixedChunkString]
  ELSE IF LoadThrows(fixedChunkString) \/ MergeThrows(r.main, r.request.key)
  THEN [r EXCEPT !.request = NoReq, !.result = FailMsg("parse")]
  ELSE LET fixedChunkObject == Load(fixedChunkString)
       IN Continue(Merge(r.main, r.request.key, fixedChunkObject), fixedChunkObject,
                   r.groups, r.gi, r.merges + 1)

(***************************************************************************)
(* POST /yaml/validate                                                     *)
(***************************************************************************)

Response(status, kind, body, fixed) ==
  [status |-> status, kind |-> kind, errors |-> body.errors, warnings |-> body.warnings,
   fixed |-> fixed]

NoResponse == Response(0, "none", Formatted(<<>>, <<>>), NoStr)

\* "No issues found. Original YAML is valid."
NoIssuesText == Str("noissues", "", EmptyObj)

NoRun == Run(EmptyObj, JsUndef, <<>>, 0, NoReq, NoStr, 0)

\* The arguments of the callback of exec.
Lint(error, stdout, stderr) == [error |-> error, stdout |-> stdout, stderr |-> stderr]

NoLint == Lint(FALSE, Stdout("empty", <<>>), FALSE)

\* The temporary file of an upload: whether it is on disk, its content, the
\* text readFileSync returned (originalYamlContent) and the fs.unlink calls
\* issued for it.
Temp(stored, content, text, unlinks) ==
  [stored |-> stored, content |-> content, text |-> text, unlinks |-> unlinks]

NoTemp == Temp(FALSE, NoStr, NoStr, 0)

\* upload.single('file') has written the upload to its own file.
Stored(content) == Temp(TRUE, content, NoStr, 0)

\* fs.readFileSync(absoluteFilePath, 'utf8'): the content of a file on disk;
\* on a file that is gone it throws, and no text is read.
readFileSync(file) == IF file.stored THEN file.content ELSE NoStr

\* const originalYamlContent = fs.readFileSync(...)
ReadInto(file) == [file EXCEPT !.text = readFileSync(file)]

\* Unlink that does not delete the file.
UnlinkNever(file) == file

\* fs.unlink(filePath, ...): the deletion is issued.
Unlink(file) == [file EXCEPT !.stored = FALSE, !.unlinks = @ + 1]

\* The requests served at the same time.
Runs == {1, 2}

\* What one invocation of the handler holds: its position, the file it read,
\* what exec gave it, and the locals of its callbacks and of getAiFixes.
Handler(hpc, hdoc, hlint, hspectral, hrun, hcalls, houtcomes, hresponse) ==
  [pc |-> hpc, doc |-> hdoc, lint |-> hlint, spectral |-> hspectral, run |-> hrun,
   calls |-> hcalls, outcomes |-> houtcomes, response |-> hresponse]

\* An invocation that has not started, for the file it will read.
Idle(d) == Handler("idle", d, NoLint, Formatted(<<>>, <<>>), NoRun, <<>>, <<>>, NoResponse)

NoPair == [i \in Runs |-> Idle(EmptyObj)]

\* A raw issue of the lint output as the lint-only handler reads it: its
\* severity and its range, <<range.start.line>>, or <<>> for no range at all.
RawLine(severity, range) == [severity |-> severity, range |-> range]

RawLines == {RawLine(sev, range) : sev \in {0, 1, 2}, range \in {<<>>, <<0>>, <<1>>, <<2>>}}

\* The standard output of the lint command: nothing, a JSON array of raw
\* issues, or text that is no JSON.
LineStdouts ==
  {Stdout("empty", <<>>), Stdout("text", <<>>)}
    \cup {Stdout("list", l) : l \in UNION {[1..n -> RawLines] : n \in 0..MaxLines}}

\* severityMap[item.severity] || 'unknown'
SeverityName(severity) ==
  CASE severity = 0 -> "error"
    [] severity = 1 -> "warn"
    [] severity = 2 -> "info"
    [] severity = 3 -> "hint"
    [] OTHER -> "unknown"

\* The issue pushed for the raw item at position i; id stands for its rule
\* and message.
LineIssue(results, i) ==
  [id |-> i, severity |-> SeverityName(results[i].severity), line |-> results[i].range[1] + 1]

\* issues.sort((a, b) => a.location.line - b.location.line), which is stable:
\* the issue goes behind the issues of the sorted list with a line not above its.
InsertByLine(sorted, issue) ==
  LET k == Cardinality({a \in 1..Len(sorted) : sorted[a].line <= issue.line})
  IN SubSeq(sorted, 1, k) \o <<issue>> \o SubSeq(sorted, k + 1, Len(sorted))

RECURSIVE SortByLine(_, _)
SortByLine(results, n) ==
  IF n = 0 THEN <<>>
  ELSE InsertByLine(SortByLine(results, n - 1), LineIssue(results, n))

\* The summary and the issues the normalizer returns.
Summarized(status, errorCount, warningCount, totalIssues, issues) ==
  [status |-> status, errorCount |-> errorCount, warningCount |-> warningCount,
   totalIssues |-> totalIssues, issues |-> issues]

\* A body without counts (the return of the catch, a message): the counts
\* read as 0.
Sorted(status, issues) == Summarized(status, 0, 0, 0, issues)

\* errorCount and warningCount: the items counted by the loop for a severity.
CountOf(results, severity) ==
  Cardinality({i \in 1..Len(results) : results[i].severity = severity})

\* The summary of a normalization that did not throw: the status from the
\* counts, totalIssues from results.length.
Summary(results, errorCount, warningCount) ==
  Summarized(IF errorCount > 0 THEN "invalid"
             ELSE IF warningCount > 0 THEN "valid_with_warnings"
             ELSE "valid",
             errorCount, warningCount, Len(results), SortByLine(results, Len(results)))

\* formatSpectralOutput of the lint-only handler: JSON.parse, the loop over the
\* raw issues, the sort, the status; reading range.start of an issue without
\* range throws, and the catch returns the status error without issues.
formatSpectralOutputSorted(stdout) ==
  IF stdout.kind # "list" THEN Sorted("error", <<>>)
  ELSE IF \E i \in 1..Len(stdout.items) : stdout.items[i].range = <<>>
  THEN Sorted("error", <<>>)
  ELSE Summary(stdout.items, CountOf(stdout.items, 0), CountOf(stdout.items, 1))

\* The request of the lint-only handler: its position, the output of the lint
\* command, whether it wrote to stderr, and the status and body of the response.
Norm(p, stdout, stderr, status, body) ==
  [pc |-> p, stdout |-> stdout, stderr |-> stderr, status |-> status, body |-> body]

NoNorm == Norm("linting", Stdout("empty", <<>>), FALSE, 0, Sorted("none", <<>>))

Init ==
  /\ pc = "idle"
  /\ doc \in Docs
  /\ apiKey \in BOOLEAN
  /\ yamlDump \in {"throws", "skips"}
  /\ lint = NoLint
  /\ spectral = Formatted(<<>>, <<>>)
  /\ run = NoRun
  /\ calls = <<>>
  /\ outcomes = <<>>
  /\ response = NoResponse
  /\ pair = NoPair
  /\ norm = NoNorm
  /\ temp = NoTemp

\* A request without a file is answered 400.
NoFile ==
  /\ pc = "idle"
  /\ pc' = "responded"
  /\ response' = Response(400, "nofile", Formatted(<<>>, <<>>), NoStr)
  /\ UNCHANGED <<doc, apiKey, yamlDump, lint, spectral, run, calls, outcomes, pair, norm, temp>>

\* A request with a file: the upload is stored, the file is read and the lint
\* command started.
Upload ==
  /\ pc = "idle"
  /\ pc' = "linting"
  /\ temp' = ReadInto(Stored(YamlText(doc)))
  /\ UNCHANGED <<doc, apiKey, yamlDump, lint, spectral, run, calls, outcomes, response, pair, norm>>

\* Respond that reports the lists as the batching left its working lists.
RespondConsumed(body, fixedYaml) == Response(200, "fixed", Formatted(<<>>, <<>>), fixedYaml)

\* The .then of getAiFixes: the resolved string is sent as fixed-yaml-file.
Respond(body, fixedYaml) == Response(200, "fixed", body, fixedYaml)

\* A handler without the short-circuit.
NoIssuesNever(spectralJsonResponse) == FALSE

\* The short-circuit of the handler: no errors and no warnings.
NoIssues(spectralJsonResponse) ==
  spectralJsonResponse.errors = <<>> /\ spectralJsonResponse.warnings = <<>>

\* The callback of exec, to the response or to the first await of getAiFixes.
LintDone ==
  /\ pc = "linting"
  /\ \E error \in BOOLEAN, stdout \in Stdouts, stderr \in BOOLEAN :
       /\ (stderr \/ error) => Len(stdout.items) <= MaxStderr
       /\ LET spectralJsonResponse == formatSpectralOutput(stdout)
              started == getAiFixes(temp.text, spectralJsonResponse, apiKey)
          IN /\ lint' = Lint(error, stdout, stderr)
             /\ temp' = Unlink(temp)
             /\ IF stderr /\ stdout.kind = "empty"
                THEN /\ pc' = "responded"
                     /\ response' = Response(500, "lintfail", Formatted(<<>>, <<>>), NoStr)
                     /\ UNCHANGED <<spectral, run, calls>>
                ELSE IF NoIssues(spectralJsonResponse)
                THEN /\ pc' = "responded"
                     /\ spectral' = spectralJsonResponse
                     /\ response' = Response(200, "noissues", spectralJsonResponse, NoIssuesText)
                     /\ UNCHANGED <<run, calls>>
                ELSE /\ spectral' = spectralJsonResponse
                     /\ run' = started
                     /\ IF started.request # NoReq
                        THEN /\ pc' = "rewriting"
                             /\ calls' = Append(calls, started.request)
                             /\ UNCHANGED response
                        ELSE /\ pc' = "responded"
                             /\ response' = Respond(spectralJsonResponse, started.result)
                             /\ UNCHANGED calls
  /\ UNCHANGED <<doc, apiKey, yamlDump, outcomes, pair, norm>>

\* fetch settles: callAiWithChunk resolves and getAiFixes goes on to its next
\* await or to its return and the response.
RewriteDone ==
  /\ pc = "rewriting"
  /\ \E outcome \in Outcomes(run.request) :
       LET resumed == Resume(run, callAiWithChunk(outcome))
       IN /\ outcomes' = Append(outcomes, outcome)
          /\ run' = resumed
          /\ IF resumed.request # NoReq
             THEN /\ calls' = Append(calls, resumed.request)
                  /\ UNCHANGED <<pc, response>>
             ELSE /\ pc' = "responded"
                  /\ response' = Respond(spectral, resumed.result)
                  /\ UNCHANGED calls
  /\ UNCHANGED <<doc, apiKey, yamlDump, lint, spectral, pair, norm, temp>>

Next == NoFile \/ Upload \/ LintDone \/ RewriteDone

Spec == Init /\ [][Next]_vars

\* The handler when every rewrite call returns: fetch settles, with a response
\* or with an exception, and the await of callAiWithChunk goes on.
SpecFair == Spec /\ WF_vars(RewriteDone)

(***************************************************************************)
(* Two requests served at the same time                                    *)
(***************************************************************************)

\* The lint outputs and the answers of the rewrite service drawn from when two
\* requests are served: no issue, one region, two regions; a non-success
\* status, the sub-document as sent, and the sub-document rewritten.
PairStdouts ==
  {Stdout("empty", <<>>),
   Stdout("list", <<RawItem(1, <<"info", "title">>)>>),
   Stdout("list", <<RawItem(0, <<"paths", "/a", "get">>), RawItem(1, <<"info", "title">>)>>)}

PairOutcomes(req) ==
  {Outcome("status", NoStr), Outcome("ok", req.yaml),
   Outcome("ok", YamlText(Rewritten(req.yaml.obj)))}

\* The callback of exec of one invocation: what LintDone does, on the
\* invocation's own locals.
Linted(h, error, stdout, stderr) ==
  LET spectralJsonResponse == formatSpectralOutput(stdout)
      started == getAiFixes(YamlText(h.doc), spectralJsonResponse, apiKey)
      l == Lint(error, stdout, stderr)
  IN IF stderr /\ stdout.kind = "empty"
     THEN Handler("responded", h.doc, l, h.spectral, h.run, h.calls, h.outcomes,
                  Response(500, "lintfail", Formatted(<<>>, <<>>), NoStr))
     ELSE IF NoIssues(spectralJsonResponse)
     THEN Handler("responded", h.doc, l, spectralJsonResponse, h.run, h.calls, h.outcomes,
                  Response(200, "noissues", spectralJsonResponse, NoIssuesText))
     ELSE IF started.request # NoReq
     THEN Handler("rewriting", h.doc, l, spectralJsonResponse, started,
                  Append(h.calls, started.request), h.outcomes, h.response)
     ELSE Handler("responded", h.doc, l, spectralJsonResponse, started, h.calls, h.outcomes,
                  Respond(spectralJsonResponse, started.result))

\* fetch settles for one invocation: what RewriteDone does, on the locals r
\* of the invocation's getAiFixes.
Settled(h, r, outcome) ==
  LET resumed == Resume(r, callAiWithChunk(outcome))
  IN IF resumed.request # NoReq
     THEN Handler(h.pc, h.doc, h.lint, h.spectral, resumed,
                  Append(h.calls, resumed.request), Append(h.outcomes, outcome), h.response)
     ELSE Handler("responded", h.doc, h.lint, h.spectral, resumed, h.calls,
                  Append(h.outcomes, outcome), Respond(h.spectral, resumed.result))

\* The locals of getAiFixes if mainYamlObject were one variable of the module:
\* the second invocation works on the object of the first.
LocalsShared(p, i) == [p[i].run EXCEPT !.main = p[1].run.main]

\* The locals of getAiFixes of invocation i: mainYamlObject, errorsByChunkKey,
\* yamlChunkObject are declared inside the function, one set per invocation.
Locals(p, i) == p[i].run

PairInit ==
  /\ pc = "idle"
  /\ doc = DocFull
  /\ apiKey \in BOOLEAN
  /\ yamlDump \in {"throws", "skips"}
  /\ lint = NoLint
  /\ spectral = Formatted(<<>>, <<>>)
  /\ run = NoRun
  /\ calls = <<>>
  /\ outcomes = <<>>
  /\ response = NoResponse
  /\ pair \in [Runs -> {Idle(DocFull), Idle(DocOnePath)}]
  /\ norm = NoNorm
  /\ temp = NoTemp

PairNoFile(i) ==
  /\ pair[i].pc = "idle"
  /\ pair' = [pair EXCEPT ![i].pc = "responded",
                          ![i].response = Response(400, "nofile", Formatted(<<>>, <<>>), NoStr)]
  /\ UNCHANGED <<pc, doc, apiKey, yamlDump, lint, spectral, run, calls, outcomes, response, norm,
                  temp>>

PairUpload(i) ==
  /\ pair[i].pc = "idle"
  /\ pair' = [pair EXCEPT ![i].pc = "linting"]
  /\ UNCHANGED <<pc, doc, apiKey, yamlDump, lint, spectral, run, calls, outcomes, response, norm,
                  temp>>

PairLintDone(i) ==
  /\ pair[i].pc = "linting"
  /\ \E error \in BOOLEAN, stdout \in PairStdouts, stderr \in BOOLEAN :
       /\ (stderr \/ error) => Len(stdout.items) <= MaxStderr
       /\ pair' = [pair EXCEPT ![i] = Linted(pair[i], error, stdout, stderr)]
  /\ UNCHANGED <<pc, doc, apiKey, yamlDump, lint, spectral, run, calls, outcomes, response, norm,
                  temp>>

PairRewriteDone(i) ==
  /\ pair[i].pc = "rewriting"
  /\ \E outcome \in PairOutcomes(pair[i].run.request) :
       pair' = [pair EXCEPT ![i] = Settled(pair[i], Locals(pair, i), outcome)]
  /\ UNCHANGED <<pc, doc, apiKey, yamlDump, lint, spectral, run, calls, outcomes, response, norm,
                  temp>>

PairNext ==
  \E i \in Runs : PairNoFile(i) \/ PairUpload(i) \/ PairLintDone(i) \/ PairRewriteDone(i)

SpecPair == PairInit /\ [][PairNext]_vars

(***************************************************************************)
(* The lint-only handler, whose normalizer sorts the issues by line        *)
(***************************************************************************)

\* The lint command runs on the uploaded file; nothing of the repair is used.
LinesInit ==
  /\ pc = "idle"
  /\ doc = DocFull
  /\ apiKey = FALSE
  /\ yamlDump = "skips"
  /\ lint = NoLint
  /\ spectral = Formatted(<<>>, <<>>)
  /\ run = NoRun
  /\ calls = <<>>
  /\ outcomes = <<>>
  /\ response = NoResponse
  /\ pair = NoPair
  /\ norm = NoNorm
  /\ temp = Stored(YamlText(DocFull))

\* The callback of exec in the lint-only handler: text on stderr and no output
\* is answered 500, no output or [] 200 with the valid message, a failed
\* normalization 500, errors 422, and anything else 200 with the sorted issues.
LinesLintDone ==
  /\ norm.pc = "linting"
  /\ \E stdout \in LineStdouts, stderr \in BOOLEAN :
       LET out == formatSpectralOutputSorted(stdout)
       IN norm' =
            IF stderr /\ stdout.kind = "empty"
            THEN Norm("responded", stdout, stderr, 500, Sorted("failed", <<>>))
            ELSE IF stdout.kind = "empty" \/ (stdout.kind = "list" /\ stdout.items = <<>>)
            THEN Norm("responded", stdout, stderr, 200, Sorted("message", <<>>))
            ELSE IF out.status = "error" THEN Norm("responded", stdout, stderr, 500, out)
            ELSE IF out.status = "invalid" THEN Norm("responded", stdout, stderr, 422, out)
            ELSE Norm("responded", stdout, stderr, 200, out)
  /\ temp' = Unlink(temp)
  /\ UNCHANGED <<pc, doc, apiKey, yamlDump, lint, spectral, run, calls, outcomes, response, pair>>

LinesNext == LinesLintDone

SpecLines == LinesInit /\ [][LinesNext]_vars

(***************************************************************************)
(* Outcomes of a run, as the caller sees them                              *)
(***************************************************************************)

Range(s) == {s[i] : i \in 1..Len(s)}

RECURSIVE Flat(_)
Flat(ss) == IF ss = <<>> THEN <<>> ELSE Head(ss) \o Flat(Tail(ss))

\* The issues handed to getAiFixes, in the order it combines them.
AllIssues == spectral.errors \o spectral.warnings

\* The issues of the batches sent so far, in the order they were sent.
Sent == Flat([i \in 1..Len(calls) |-> calls[i].batch])

\* The issues still waiting in errorsByChunkKey.
Waiting == Flat([g \in 1..Len(run.groups) |-> run.groups[g].issues])

\* The number of batches of the partition of the issues handed to getAiFixes.
BatchCount(groups) ==
  LET F[g \in 0..Len(groups)] ==
        IF g = 0 THEN 0
        ELSE F[g - 1] + (Len(groups[g].issues) + CHUNK_SIZE - 1) \div CHUNK_SIZE
  IN F[Len(groups)]

NumBatches == BatchCount(ErrorsByChunkKey(spectral))

\* A rewrite call that failed: fetch threw, the status was no success, the
\* response held no text, or the text does not parse.
CallFailed(outcome) ==
  \/ outcome.net \in {"exception", "status"}
  \/ outcome.content.kind \in {"none", "invalid"}

AnyCallFailed == \E i \in 1..Len(outcomes) : CallFailed(outcomes[i])

Answered == pc = "responded" /\ response.kind = "fixed"

\* The run ended with a string that starts with 'AI fix failed:'.
Failed == Answered /\ StartsWithFailed(response.fixed)

\* The run ended with the dump of mainYamlObject.
Repaired == Answered /\ response.fixed.kind = "yaml"

\* The run ended with 'AI fix skipped: ...'.
Skipped == Answered /\ response.fixed.kind = "skipmsg"

NoIssuesFound == pc = "responded" /\ response.kind = "noissues"

(***************************************************************************)
(* Claims                                                                  *)
(***************************************************************************)

\* C1: once a rewrite call has failed (fetch threw, non-success status, no
\* text, or text that does not parse), the step that saw the failure and every
\* later step issue no rewrite call, and the run has ended Failed.
C1_AbortOnFailure ==
  /\ [](AnyCallFailed => Failed)
  /\ [][AnyCallFailed' => calls' = calls]_vars

\* C1 witness: a call failed while a later batch or region was still waiting.
C1_Witness ==
  /\ AnyCallFailed
  /\ Len(outcomes) >= 2
  /\ (run.gi < Len(run.groups) \/ run.groups[run.gi].issues # <<>>)

\* No element occurs twice in the sequence.
Distinct(s) == \A a, b \in 1..Len(s) : a # b => s[a] # s[b]

\* The sequences sent and waiting divide the sequence all between them.
Divide(sent, waiting, all) ==
  /\ Range(sent) \cup Range(waiting) = Range(all)
  /\ Len(sent) + Len(waiting) = Len(all)

\* C2: the batches sent hold no issue twice and only input issues, each has
\* between 1 and CHUNK_SIZE issues, all of the region key it was sent for;
\* while a call is awaited the sent and the waiting issues together are the
\* input issues, and a run that ends Repaired has sent every input issue.
C2_Partition ==
  /\ \A i \in 1..Len(calls) :
       /\ Len(calls[i].batch) \in 1..CHUNK_SIZE
       /\ \A j \in 1..Len(calls[i].batch) : ChunkKey(calls[i].batch[j]) = calls[i].key
  /\ Distinct(Sent)
  /\ Range(Sent) \subseteq Range(AllIssues)
  /\ pc = "rewriting" => Divide(Sent, Waiting, AllIssues)
  /\ Repaired => Divide(Sent, <<>>, AllIssues)

\* C2 witness: a run ended Repaired after a region of more than CHUNK_SIZE
\* issues was sent as a full batch and a second batch, and another region.
C2_Witness ==
  /\ Repaired
  /\ Len(calls) = 3
  /\ Len(calls[1].batch) = CHUNK_SIZE
  /\ calls[2].key = calls[1].key
  /\ calls[3].key # calls[1].key

\* The handler normalized the lint output, and the normalized list is empty.
NormalizedEmpty ==
  /\ pc = "responded"
  /\ response.kind \notin {"nofile", "lintfail"}
  /\ formatSpectralOutput(lint.stdout) = Formatted(<<>>, <<>>)

C4_NoPartialDocument ==
  (Answered /\ run.merges >= 1 /\ run.merges < NumBatches) =>
    /\ response.fixed.kind \in {"failmsg", "failprefix"}
    /\ response.fixed.obj = EmptyObj

\* C4 witness: a run failed after a merge that changed the document.
C4_Witness ==
  /\ Answered
  /\ run.merges >= 1
  /\ run.merges < NumBatches
  /\ run.main # doc
  /\ CallFailed(outcomes[Len(outcomes)])

\* The outcome of the last call, when the run ended on it.
LastOutcome == outcomes[Len(outcomes)]

SentKeys == {calls[i].key : i \in 1..Len(calls)}

\* C6: merging changes only the nodes addressed by the region keys merged:
\* every other top-level key and every other entry under paths keeps the
\* cell it had in the uploaded document, and no key is added.
C6_MergeFrame ==
  Len(calls) >= 1 =>
    /\ \A k \in K : <<k>> \notin SentKeys => run.main.top[k] = doc.top[k]
    /\ \A p \in K : (<<"paths", p>> \notin SentKeys /\ <<"paths">> \notin SentKeys)
                      => run.main.paths[p] = doc.paths[p]

\* The region keys of the model.
RegionKeys == {<<"info">>, <<"tags">>, <<"paths">>, <<"paths", "/a">>, <<"paths", "/b">>}

\* The key resolves to an existing node of the document.
Resolves(main, key) == ~ExtractThrows(main, key) /\ ~HasUndef(Extract(main, key))

\* The rewrite service answered every call with the text it was sent.
AllEchoed == \A i \in 1..Len(outcomes) : outcomes[i] = Outcome("ok", calls[i].yaml)

\* C7 as stated: for the document of a run and every region key of its
\* issues, resolving or not, extraction succeeds and merging the extracted
\* sub-document back gives the document.
C7_Original ==
  \A g \in 1..Len(run.groups) :
    LET key == run.groups[g].key
    IN /\ ~ExtractThrows(run.main, key)
       /\ ~DumpThrows(JsObj(Extract(run.main, key)))
       /\ Merge(run.main, key, Load(Dump(JsObj(Extract(run.main, key))))) = run.main

\* The sub-document dumps and loads to itself, and merging what was loaded
\* gives the document.
LoadsBack(main, key, sub, loaded) ==
  /\ loaded = sub
  /\ Merge(main, key, loaded) = main

RoundTrips(main, key, sub) ==
  /\ ~DumpThrows(sub)
  /\ LoadsBack(main, key, sub, Load(Dump(sub)))

\* A key that resolves in the document round-trips.
ResolvedRoundTrips(main, key, sub) ==
  (~ExtractThrows(main, key) /\ ~HasUndef(sub)) => RoundTrips(main, key, JsObj(sub))

\* C7 as amended: for every document and every region key that resolves to an
\* existing node, the extracted sub-document dumps and loads to itself and
\* merging it back gives the document; a run whose calls all returned the text
\* they were sent leaves mainYamlObject equal to the uploaded document.
C7_RoundTrip ==
  /\ \A main \in {doc, run.main} : \A key \in RegionKeys :
       ResolvedRoundTrips(main, key, Extract(main, key))
  /\ (Len(outcomes) >= 1 /\ AllEchoed) => run.main = doc

\* C7 witness: two regions were extracted, returned as sent and merged back.
C7_Witness ==
  /\ Len(outcomes) = 2
  /\ AllEchoed
  /\ run.merges = 2
  /\ calls[1].key = <<"paths", "/a">>
  /\ calls[2].key = <<"info">>

\* C8: merging the fixed object of the awaited call a second time gives the
\* document of merging it once, whatever the rewrite service answers.
C8_MergeIdempotent ==
  pc = "rewriting" =>
    \A outcome \in Outcomes(run.request) :
      LET fixedChunkString == callAiWithChunk(outcome)
          key == run.request.key
      IN (~StartsWithFailed(fixedChunkString) /\ ~LoadThrows(fixedChunkString)) =>
           Merge(Merge(run.main, key, Load(fixedChunkString)), key, Load(fixedChunkString))
             = Merge(run.main, key, Load(fixedChunkString))

\* C8 witness: a call is awaited for a region already merged once, and an
\* answer to it changes the document when merged.
C8_Witness ==
  /\ pc = "rewriting"
  /\ run.merges >= 1
  /\ \E i \in 1..Len(outcomes) : calls[i].key = run.request.key
  /\ \E outcome \in Outcomes(run.request) :
       /\ outcome.content.kind = "yaml"
       /\ Merge(run.main, run.request.key, Load(outcome.content)) # run.main

\* C9: lint output that is no list of issues is answered as a failure, never
\* as NoIssuesFound and never with status 200.
C9_MalformedReported ==
  (pc = "responded" /\ lint.stdout.kind \in {"garbage", "notlist"}) =>
    ~NoIssuesFound /\ response.status # 200

\* A rewrite call was made, did not fail, and was merged, for every batch.
AllBatchesMerged ==
  /\ NumBatches >= 1
  /\ Len(calls) = NumBatches
  /\ Len(outcomes) = NumBatches
  /\ run.merges = NumBatches
  /\ ~AnyCallFailed

\* The handler answered from the repair path.
RunEnded == pc = "responded" /\ response.kind \in {"noissues", "fixed"}

\* C10 as stated: a run ends in exactly one of NoIssuesFound, Repaired and
\* Failed, and in Repaired only if every batch was called and merged.
C10_Original ==
  RunEnded =>
    /\ Cardinality({o \in {"n", "r", "f"} :
          \/ o = "n" /\ NoIssuesFound
          \/ o = "r" /\ Repaired
          \/ o = "f" /\ Failed}) = 1
    /\ Repaired => AllBatchesMerged

\* C10 as amended: a run ends in exactly one of NoIssuesFound, Repaired,
\* Failed and Skipped; Skipped is the run with issues and no API key, which
\* made no rewrite call; Repaired only if every batch was called and merged.
C10_FourOutcomes ==
  RunEnded =>
    /\ Cardinality({o \in {"n", "r", "f", "s"} :
          \/ o = "n" /\ NoIssuesFound
          \/ o = "r" /\ Repaired
          \/ o = "f" /\ Failed
          \/ o = "s" /\ Skipped}) = 1
    /\ Repaired => AllBatchesMerged
    /\ Skipped <=> (~apiKey /\ ~NoIssuesFound)
    /\ Skipped => calls = <<>> /\ AllIssues # <<>>

\* C10 witness: a run with issues and no API key ended.
C10_Witness == RunEnded /\ ~apiKey /\ AllIssues # <<>> /\ Skipped

\* C11: at most one rewrite call is in flight: the calls sent are one more
\* than the calls settled exactly while getAiFixes awaits fetch, and the
\* awaited call was sent after every earlier call had settled without failure
\* and its fixed object had been merged.
C11_OneInFlight ==
  /\ Len(calls) - Len(outcomes) \in {0, 1}
  /\ (Len(calls) = Len(outcomes) + 1) <=> (pc = "rewriting")
  /\ pc = "rewriting" =>
       /\ run.request = calls[Len(calls)]
       /\ run.merges = Len(outcomes)
       /\ ~AnyCallFailed

\* C11 witness: a third call is awaited after two calls settled and merged.
C11_Witness ==
  /\ pc = "rewriting"
  /\ Len(calls) = 3
  /\ Len(outcomes) = 2
  /\ run.merges = 2
  /\ run.main # doc

RECURSIVE Replay(_, _)
\* The invocation h after fetch settled with each of outs in turn, with no
\* other invocation running.
Replay(h, outs) ==
  IF outs = <<>> THEN h ELSE Replay(Settled(h, h.run, Head(outs)), Tail(outs))

\* The invocation that read the file of h and got the lint output and the
\* answers h got, served alone.
Alone(h) ==
  Replay(Linted(Idle(h.doc), h.lint.error, h.lint.stdout, h.lint.stderr), h.outcomes)

\* The invocation has got its lint output.
PastLint(h) == h.pc = "rewriting" \/ (h.pc = "responded" /\ h.response.kind # "nofile")

\* C12: of two requests served at the same time with their steps interleaved
\* in any order, each sends the rewrite requests and ends with the response
\* it sends and ends with when served alone with the same lint output and the
\* same answers of the rewrite service.
C12_RunsIndependent ==
  \A i \in Runs :
    PastLint(pair[i]) =>
      /\ pair[i].calls = Alone(pair[i]).calls
      /\ pair[i].response = Alone(pair[i]).response
      /\ pair[i].run.main = Alone(pair[i]).run.main

\* C12 witness: both requests ended Repaired after two calls each, on
\* different documents, and the second sent its first call while the first
\* awaited its second.
C12_Witness ==
  /\ \A i \in Runs : /\ pair[i].pc = "responded"
                     /\ pair[i].response.fixed.kind = "yaml"
                     /\ Len(pair[i].calls) = 2
                     /\ pair[i].run.main # pair[i].doc
  /\ pair[1].doc # pair[2].doc
  /\ pair[1].run.main # pair[2].run.main

\* The region keys of the issues handed to getAiFixes.
IssueKeys == {ChunkKey(AllIssues[i]) : i \in 1..Len(AllIssues)}

\* ceil(n_r / CHUNK_SIZE) for the region key r.
Need(r) ==
  (Cardinality({i \in 1..Len(AllIssues) : ChunkKey(AllIssues[i]) = r}) + CHUNK_SIZE - 1)
    \div CHUNK_SIZE

RECURSIVE SumNeed(_)
SumNeed(S) ==
  IF S = {} THEN 0
  ELSE LET r == CHOOSE r \in S : TRUE IN Need(r) + SumNeed(S \ {r})

\* C13: a run in which no call and no step failed, that is a run that ended
\* Repaired, issued as many rewrite calls as the sum over the regions r of
\* ceil(n_r / CHUNK_SIZE); all batches of a region but its last hold
\* CHUNK_SIZE issues, so 7 issues of one region go out as 5 and then 2.
C13_CallCount ==
  Repaired =>
    /\ Len(calls) = SumNeed(IssueKeys)
    /\ \A i \in 1..Len(calls) :
         (i < Len(calls) /\ calls[i + 1].key = calls[i].key) =>
           Len(calls[i].batch) = CHUNK_SIZE
    /\ \A r \in IssueKeys : Cardinality({i \in 1..Len(calls) : calls[i].key = r}) = Need(r)

\* C13 witness: 7 issues of one path region, repaired with exactly 2 calls,
\* of 5 and then 2 issues.
C13_Witness ==
  /\ Repaired
  /\ Len(AllIssues) = 7
  /\ IssueKeys = {<<"paths", "/a">>}
  /\ Len(calls) = 2
  /\ Len(calls[1].batch) = 5
  /\ Len(calls[2].batch) = 2

\* The lint result holds an issue of severity error (0).
HasErrorIssue ==
  lint.stdout.kind = "list" /\ \E i \in 1..Len(lint.stdout.items) : lint.stdout.items[i].sev = 0

\* The lint result holds issues, none of severity error.
OnlyWarnings ==
  /\ lint.stdout.kind = "list"
  /\ lint.stdout.items # <<>>
  /\ \A i \in 1..Len(lint.stdout.items) : lint.stdout.items[i].sev = 1

\* C14: the handler answers 422 whenever the lint result holds an issue of
\* severity error, and 200 when it holds warnings and no error.
C14_StatusByErrors ==
  (pc = "responded" /\ response.kind = "fixed") =>
    /\ HasErrorIssue => response.status = 422
    /\ OnlyWarnings => response.status = 200

\* The number of raw issues of the lint result with the severity sev.
CountSeverity(sev) ==
  Cardinality({i \in 1..Len(lint.stdout.items) : lint.stdout.items[i].sev = sev})

\* C15: the reported errors are as many as the raw issues of severity 0, the
\* reported warnings as many as those of severity 1, and no raw issue of
\* severity 2 or 3 is listed among the errors.
C15_SeverityTable ==
  (pc \in {"rewriting", "responded"} /\ lint.stdout.kind = "list"
     /\ response.kind \notin {"nofile", "lintfail"}) =>
    /\ Len(spectral.errors) = CountSeverity(0)
    /\ Len(spectral.warnings) = CountSeverity(1)
    /\ \A j \in 1..Len(spectral.errors) :
         lint.stdout.items[spectral.errors[j].id].sev \notin {2, 3}

\* The (region, batch) pair of the i-th call.
Submitted(i) == <<calls[i].key, calls[i].batch>>

\* C16: no (region, batch) pair is submitted twice, whether its call
\* succeeded or failed, and no more calls are made than there are pairs.
C16_NoRetry ==
  /\ \A i, j \in 1..Len(calls) : i # j => Submitted(i) # Submitted(j)
  /\ Len(calls) <= SumNeed(IssueKeys)

\* C16 witness: the second batch of a region failed and the run ended with
\* the two calls made.
C16_Witness ==
  /\ Failed
  /\ Len(calls) = 2
  /\ calls[1].key = calls[2].key
  /\ CallFailed(outcomes[2])

\* The content of the answer is no valid structured content for the region:
\* it does not parse, or parses to a string or to nothing, or is missing.
Unparsable(outcome) ==
  outcome.net = "ok" /\ outcome.content.kind \in {"invalid", "scalar", "blank", "none"}

\* C17: when the content of an answer is no valid structured content, the
\* run ends Failed on that answer with the reason of an unparsable rewrite
\* (or of a missing text), and mainYamlObject is as it was before the answer.
C17_UnparsableFails ==
  \A i \in 1..Len(outcomes) :
    Unparsable(outcomes[i]) =>
      /\ i = Len(outcomes)
      /\ Failed
      /\ response.fixed \in {FailMsg("parse"), FailMsg("notext")}
      /\ i = 1 => run.main = doc

\* The region key of the first group of errorsByChunkKey.
FirstKey == ErrorsByChunkKey(spectral)[1].key

\* C18: when the region key of the first batch does not resolve to a node of
\* the document (field absent, paths absent, or path entry absent), no
\* rewrite call is issued for it and the run ends Failed.
C18_RegionNotFound ==
  (apiKey /\ AllIssues # <<>> /\ pc \in {"rewriting", "responded"}
     /\ ~Resolves(doc, FirstKey)) =>
    /\ calls = <<>>
    /\ Failed

\* C19: when the lint command failed and printed nothing, with or without
\* text on stderr, the handler does not answer that there are no issues and
\* does not answer 200.
C19_LintFailureReported ==
  (pc = "responded" /\ response.kind # "nofile" /\ lint.error /\ lint.stdout.kind = "empty") =>
    /\ ~NoIssuesFound
    /\ response.status # 200

\* C20: the sub-document of the awaited call, for the first and for every
\* later batch of a region, is the dump of that region as it is in
\* mainYamlObject when the call is made.
C20_SubmittedIsLive ==
  pc = "rewriting" =>
    /\ ~ExtractThrows(run.main, run.request.key)
    /\ run.request.yaml = Dump(JsObj(Extract(run.main, run.request.key)))

\* The region key the segments of a location path name: the first segment,
\* or (paths, second segment).
KeyOfPath(path) ==
  IF path[1] = "paths" /\ Len(path) > 1 THEN <<path[1], path[2]>> ELSE <<path[1]>>

\* The handler normalized a list the lint command printed.
ListNormalized ==
  /\ pc \in {"rewriting", "responded"}
  /\ lint.stdout.kind = "list"
  /\ response.kind \notin {"nofile", "lintfail"}

\* C21: the region key computed for an issue from its dot-joined element is
\* the key its path segments name, also when a segment holds a '.'.
C21_KeyFromPath ==
  ListNormalized =>
    \A i \in 1..Len(lint.stdout.items) :
      lint.stdout.items[i].path # <<>> =>
        ChunkKey(NewItem(lint.stdout.items, i)) = KeyOfPath(lint.stdout.items[i].path)

\* C22: the calls of one region are consecutive: between two calls for the
\* same region key there is no call for another.
C22_RegionsConsecutive ==
  \A i, j, k \in 1..Len(calls) :
    (i < j /\ j < k /\ calls[i].key = calls[k].key) => calls[j].key = calls[i].key

\* C22 witness: two batches of one region were sent and then a batch of
\* another, whose issue stands between the issues of the first in the list
\* handed to getAiFixes.
C22_Witness ==
  /\ Len(calls) = 3
  /\ calls[1].key = calls[2].key
  /\ calls[3].key # calls[1].key
  /\ \E a, b, c \in 1..Len(AllIssues) :
       /\ a < b /\ b < c
       /\ ChunkKey(AllIssues[a]) = calls[1].key
       /\ ChunkKey(AllIssues[b]) = calls[3].key
       /\ ChunkKey(AllIssues[c]) = calls[1].key

\* The issues of the sequence that belong to the region key.
OfKey(seq, key) == LET In(x) == ChunkKey(x) = key IN SelectSeq(seq, In)

\* The position at which the region key first occurs in the sequence.
FirstAt(seq, key) ==
  CHOOSE a \in 1..Len(seq) :
    /\ ChunkKey(seq[a]) = key
    /\ \A b \in 1..(a - 1) : ChunkKey(seq[b]) # key

IsPrefix(s, t) == Len(s) <= Len(t) /\ SubSeq(t, 1, Len(s)) = s

\* The ids (positions in the lint output) of the sequence ascend.
Ascending(seq) == \A a, b \in 1..Len(seq) : a < b => seq[a].id < seq[b].id

\* The position in the lint output at which the region key first occurs.
FirstInLint(key) ==
  LET ids == {AllIssues[a].id : a \in {b \in 1..Len(AllIssues) : ChunkKey(AllIssues[b]) = key}}
  IN CHOOSE m \in ids : \A n \in ids : m <= n

\* C23 as stated: regions are called in the order in which their keys first
\* occur in the list the lint command printed, and the issues of a region
\* are sent in the order they have in that list.
C23_Original ==
  /\ \A i, j \in 1..Len(calls) :
       (i < j /\ calls[i].key # calls[j].key) =>
         FirstInLint(calls[i].key) < FirstInLint(calls[j].key)
  /\ \A i \in 1..Len(calls) : Ascending(OfKey(Sent, calls[i].key))

\* C23 as amended: regions are called in the order in which their keys first
\* occur in the errors followed by the warnings, the issues of a region are
\* sent in the order they have there, and the errors and the warnings each
\* keep the order of the lint output.
C23_ErrorsFirstOrder ==
  /\ \A i, j \in 1..Len(calls) :
       (i < j /\ calls[i].key # calls[j].key) =>
         FirstAt(AllIssues, calls[i].key) < FirstAt(AllIssues, calls[j].key)
  /\ \A i \in 1..Len(calls) :
       IsPrefix(OfKey(Sent, calls[i].key), OfKey(AllIssues, calls[i].key))
  /\ Ascending(spectral.errors)
  /\ Ascending(spectral.warnings)

\* C23 witness: the lint output names a warning of one region before an
\* error of another, and the region of the error was called first.
C23_Witness ==
  /\ Repaired
  /\ Len(calls) = 2
  /\ calls[1].key # calls[2].key
  /\ calls[1].batch[1].id > calls[2].batch[1].id

\* C24: an issue whose path is empty is kept, its region key is the reserved
\* key root and not the empty string, and a run that ends Repaired has sent
\* it in a batch.
C24_EmptyPathIsRoot ==
  ListNormalized =>
    \A i \in 1..Len(lint.stdout.items) :
      lint.stdout.items[i].path = <<>> =>
        /\ NewItem(lint.stdout.items, i) \in Range(AllIssues)
        /\ ChunkKey(NewItem(lint.stdout.items, i)) = <<"root">>
        /\ ChunkKey(NewItem(lint.stdout.items, i)) # <<"">>
        /\ Repaired => NewItem(lint.stdout.items, i) \in Range(Sent)

\* The property the sub-document of a region key holds.
OwnProperty(key) == IF Len(key) > 1 THEN key[2] ELSE key[1]

\* C25: the YAML text of every request holds the property of its region key
\* and no other, and the issues of the request all belong to that key.
C25_OnlyOneRegion ==
  \A i \in 1..Len(calls) :
    /\ calls[i].yaml.kind = "yaml" =>
         \A k \in K \ {OwnProperty(calls[i].key)} : calls[i].yaml.obj.top[k] = "absent"
    /\ \A j \in 1..Len(calls[i].batch) : ChunkKey(calls[i].batch[j]) = calls[i].key

\* The raw list l in another order: position i holds the item l had at f[i].
Permuted(l, f) == [i \in 1..Len(l) |-> l[f[i]]]

\* The orderings tried for a list of n items: every one for a short list; the
\* reverse, a rotation and a swap of the first with the last for a long one.
Reorders(n) ==
  IF n <= MaxShort + 1 THEN Permutations(1..n)
  ELSE {[i \in 1..n |-> n + 1 - i], [i \in 1..n |-> (i % n) + 1],
        [i \in 1..n |-> IF i = 1 THEN n ELSE IF i = n THEN 1 ELSE i]}

\* The groups errorsByChunkKey holds for the raw list l taken in the order f,
\* each as its key and the set of the items of l (by position in l) in it.
GroupSets(l, f) ==
  LET groups == ErrorsByChunkKey(formatSpectralOutput(Stdout("list", Permuted(l, f))))
  IN {<<groups[g].key, {f[groups[g].issues[a].id] : a \in 1..Len(groups[g].issues)}>>
        : g \in 1..Len(groups)}

\* The groups of the run, in the same form.
GroupSetsOfRun ==
  LET groups == ErrorsByChunkKey(spectral)
  IN {<<groups[g].key, {groups[g].issues[a].id : a \in 1..Len(groups[g].issues)}>>
        : g \in 1..Len(groups)}

\* C26: for the lint output of the run taken in any other order, grouping
\* assigns the same set of issues to each region key as it does in the run.
C26_GroupingIgnoresOrder ==
  (ListNormalized /\ outcomes = <<>>) =>
    \A f \in Reorders(Len(lint.stdout.items)) :
      GroupSets(lint.stdout.items, f) = GroupSetsOfRun

\* C26 witness: a lint output of three issues, the first and the last of one
\* region and the second of another, was grouped.
C26_Witness ==
  /\ pc = "rewriting"
  /\ outcomes = <<>>
  /\ Len(lint.stdout.items) = 3
  /\ KeyOfPath(lint.stdout.items[1].path) = KeyOfPath(lint.stdout.items[3].path)
  /\ KeyOfPath(lint.stdout.items[2].path) # KeyOfPath(lint.stdout.items[1].path)
  /\ Cardinality(GroupSetsOfRun) = 2

\* C27: whenever the lint-only handler normalized a lint output with issues,
\* every raw issue is output, one with a range at line range.start.line + 1
\* and one without a range at line 0, and the issues ascend by line.
C27_SortedByLine ==
  (norm.pc = "responded" /\ norm.stdout.kind = "list" /\ norm.stdout.items # <<>>) =>
    /\ Len(norm.body.issues) = Len(norm.stdout.items)
    /\ \A i \in 1..Len(norm.stdout.items) :
         \E a \in 1..Len(norm.body.issues) :
           /\ norm.body.issues[a].id = i
           /\ norm.body.issues[a].line =
                IF norm.stdout.items[i].range = <<>> THEN 0
                ELSE norm.stdout.items[i].range[1] + 1
    /\ \A a, b \in 1..Len(norm.body.issues) :
         a < b => norm.body.issues[a].line <= norm.body.issues[b].line

\* C28: a rewrite call answered with a success status and a non-empty content
\* is not classified as failed, whatever the content starts with, and the run
\* does not end with that content as its failure message.
C28_FailedOnlyIfFailed ==
  \A i \in 1..Len(outcomes) :
    (outcomes[i].net = "ok" /\ outcomes[i].content.kind # "none") =>
      /\ ~StartsWithFailed(callAiWithChunk(outcomes[i]))
      /\ ~(Failed /\ i = Len(outcomes) /\ response.fixed = outcomes[i].content)

\* The answer to the i-th call rewrites the sub-document that was sent and
\* nothing else: it is that sub-document, as sent or with its values rewritten.
LocalAnswer(i) ==
  /\ outcomes[i].net = "ok"
  /\ calls[i].yaml.kind = "yaml"
  /\ outcomes[i].content \in {calls[i].yaml, YamlText(Rewritten(calls[i].yaml.obj))}

\* The document after the fix of the first call was merged.
AfterFirst == Merge(doc, calls[1].key, Load(callAiWithChunk(outcomes[1])))

\* C29: when two regions were repaired one after the other, each by an answer
\* that rewrites only the sub-document sent, merging the first fix leaves the
\* sub-document extracted for the second region as it was in the upload, and
\* merging the second fix leaves the sub-document of the first as it was fixed.
C29_RegionsDisjoint ==
  (/\ Len(calls) = 2
   /\ Len(outcomes) = 2
   /\ run.merges = 2
   /\ calls[1].key # calls[2].key
   /\ LocalAnswer(1)
   /\ LocalAnswer(2)) =>
    /\ Extract(AfterFirst, calls[2].key) = Extract(doc, calls[2].key)
    /\ Extract(run.main, calls[1].key) = Extract(AfterFirst, calls[1].key)

\* The response of a repair run lists the issues of normalized, and so does
\* spectralJsonResponse while the run waits for the rewrite service.
KeptAs(normalized) ==
  /\ Answered =>
       /\ response.errors = normalized.errors
       /\ response.warnings = normalized.warnings
  /\ pc = "rewriting" => spectral = normalized

\* C30: after a repair run, successful or failed, the errors and the warnings
\* of the response are the lists the normalizer made of the lint output, same
\* issues in the same order; and while the run consumes its working lists the
\* normalized lists stay as the normalizer made them.
C30_ReportedIssuesKept ==
  (Answered \/ pc = "rewriting") => KeptAs(formatSpectralOutput(lint.stdout))

\* C30 witness: a run ended Repaired after more than one batch, its working
\* lists all consumed, and the response lists more than CHUNK_SIZE issues.
C30_Witness ==
  /\ Repaired
  /\ Len(calls) > 1
  /\ \A g \in 1..Len(run.groups) : run.groups[g].issues = <<>>
  /\ Len(response.errors) + Len(response.warnings) > CHUNK_SIZE
  /\ response.errors # <<>>
  /\ response.warnings # <<>>

\* The request has its response, and a response of the repair path carries the
\* string getAiFixes resolved to.
OneResponse ==
  /\ (pc = "responded") <=> (response # NoResponse)
  /\ pc = "responded" => response.status \in {200, 400, 500}
  /\ pc = "rewriting" => run.request # NoReq /\ Len(calls) = Len(outcomes) + 1
  /\ (pc = "responded" /\ run # NoRun) =>
       /\ response.kind = "fixed"
       /\ run.request = NoReq
       /\ Len(calls) = Len(outcomes)
       /\ run.result.kind # "none"
       /\ response.fixed = run.result

\* A step that writes the response writes the first one and ends the request.
RespondsOnce ==
  response' # response => (response = NoResponse /\ pc # "responded" /\ pc' = "responded")

\* C31: every request has exactly one response: none is written before the
\* lint command and every rewrite call returned, one is written by the step in
\* which the last of them returns, none after it; and getAiFixes resolves to a
\* string on every path, a throw inside it included.
C31_ExactlyOneResponse == []OneResponse /\ [][RespondsOnce]_vars

\* C31 witness: yaml.dump threw inside getAiFixes after a rewrite call had
\* returned, and the request was answered with the string of the catch.
C31_Witness ==
  /\ Answered
  /\ Len(outcomes) >= 1
  /\ outcomes[Len(outcomes)].net = "ok"
  /\ ~StartsWithFailed(callAiWithChunk(outcomes[Len(outcomes)]))
  /\ response.fixed = FailMsg("critical")

\* From one await of getAiFixes to the next, issues left errorsByChunkKey.
IssuesConsumed ==
  (pc = "rewriting" /\ pc' = "rewriting") => Len(Waiting') < Len(Waiting)

\* C32: when every rewrite call returns, a run that awaits a rewrite call ends
\* Repaired or Failed; it makes at most as many calls as the partition has
\* batches, and every pass of the loop takes at least one issue off the work
\* that remains.
C32_RunTerminates ==
  /\ (pc = "rewriting") ~> (Repaired \/ Failed)
  /\ [](Len(calls) <= NumBatches)
  /\ [][IssuesConsumed]_vars

\* C32 witness: a run ended Repaired with its third call, as many calls as
\* the partition has batches, and nothing left to send.
C32_Witness ==
  /\ Repaired
  /\ Len(calls) = 3
  /\ NumBatches = 3
  /\ Waiting = <<>>

\* The file of an upload: read while the lint command runs and the file is on
\* disk, and its deletion issued once the lint command has completed.
FileKept ==
  /\ pc = "linting" =>
       /\ temp.stored
       /\ temp.unlinks = 0
       /\ temp.text = YamlText(doc)
  /\ (pc = "rewriting" \/ (pc = "responded" /\ response.kind # "nofile")) =>
       /\ temp.unlinks = 1
       /\ temp.text = YamlText(doc)
  /\ run # NoRun /\ apiKey /\ outcomes = <<>> => run.main = Load(temp.text).obj

\* The text is read from a file that is on disk and not yet unlinked; the
\* deletion is issued by the step in which the lint command completes, before
\* which no response was sent, and by no other step.
FileStep ==
  /\ temp'.text # temp.text => temp'.stored /\ temp'.unlinks = 0 /\ temp'.text = temp'.content
  /\ temp'.unlinks # temp.unlinks =>
       /\ pc = "linting"
       /\ pc' # "linting"
       /\ response = NoResponse
       /\ temp.text = temp.content
       /\ temp'.unlinks = temp.unlinks + 1
  /\ (pc = "linting" /\ pc' # "linting") => temp'.unlinks = temp.unlinks + 1

\* C33: for a request with a file, the text handed to the repair was read
\* while the temporary file was on disk, before its deletion; the deletion is
\* issued exactly once, by the step in which the lint command completes, no
\* later than the response, whatever lint and repair give.
C33_ReadBeforeDelete == []FileKept /\ [][FileStep]_vars

\* C33 witness: the lint command failed with text on stderr and no output,
\* the handler answered 500, and the deletion had been issued once.
C33_Witness ==
  /\ pc = "responded"
  /\ response.kind = "lintfail"
  /\ temp.unlinks = 1
  /\ ~temp.stored
  /\ temp.text = YamlText(doc)

\* The lint-only handler answered with the summary of a normalization that
\* did not throw.
Normalized ==
  /\ norm.pc = "responded"
  /\ norm.body.status \in {"valid", "valid_with_warnings", "invalid"}

====
